---- MODULE Spec2Model ----
(***************************************************************************)
(* Client-side session layer of the Disha chat front end:                  *)
(*   Chat          (frontend/js/chat.js)      message list, optimistic send *)
(*   ScrollManager (frontend/js/scroll.js)    backward pagination           *)
(*   App           (app.js, start-up)         initial load and greeting     *)
(*   WS            (frontend/js/websocket.js) socket, reconnects, keepalive *)
(*   API           (frontend/js/websocket.js) outcomes of a request        *)
(* The message container of the page is modelled as the sequence of its    *)
(* child nodes (message wrappers and date dividers).  Text is a sequence    *)
(* of one-character strings.                                                *)
(***************************************************************************)
EXTENDS Integers, Sequences, FiniteSets, TLC

(***************************************************************************)
(* Bounds of the model.                                                     *)
(***************************************************************************)
\* the client clock (Date.now(), in ticks) runs from 1 to MaxClock
MaxClock == 2
\* the message container holds at most MaxDom child nodes
MaxDom == 4
\* a server page (latest / older) carries at most MaxPage messages
MaxPage == 2
\* at most MaxFetches older-page requests are modelled in flight
MaxFetches == 2
\* ticks per calendar day: timestamps t and u are on the same date iff
\* t \div TicksPerDay = u \div TicksPerDay
TicksPerDay == 2
\* height of a short scroll viewport, in node heights (every node is 1
\* high); a tall viewport holds MaxDom nodes, so its content never scrolls
ShortViewport == 1
\* at most MaxSockets WebSocket objects are alive (not yet closed) at a time
MaxSockets == 2
\* at most MaxTimers reconnect timers are pending, and at most MaxTimers
\* ping timers run without a handle to them
MaxTimers == 2
\* the latest-messages responses of the initial-load specification carry at
\* most MaxLoad messages
MaxLoad == 3

\* WS.maxReconnectAttempts
maxReconnectAttempts == 5

(***************************************************************************)
(* Text: sequences of characters.                                           *)
(***************************************************************************)
NL == "\n"
Whitespace == {" ", NL}
\* characters with the Unicode Emoji property in the alphabet used here
\* ('*', '#' and the digits have it; letters and '_' do not)
EmojiChars == {"*", "#"}
\* tokens produced by the formatter; they are not characters of any input
TagOpen == "<t>"
TagClose == "</t>"
TagBr == "<br>"
Tags == {TagOpen, TagClose, TagBr}

\* a truthy option value that is not a string (e.g. the JSON number 5)
NonString == <<"#num">>
IsString(v) == v # NonString

RECURSIVE TrimStart(_)
TrimStart(s) ==
    IF s # <<>> /\ Head(s) \in Whitespace THEN TrimStart(Tail(s)) ELSE s

RECURSIVE TrimEnd(_)
TrimEnd(s) ==
    IF s # <<>> /\ s[Len(s)] \in Whitespace
    THEN TrimEnd(SubSeq(s, 1, Len(s) - 1))
    ELSE s

\* String.prototype.trim
Trim(s) == TrimEnd(TrimStart(s))

\* does delimiter d occur in s at position i
MatchAt(s, d, i) ==
    /\ i >= 1
    /\ i + Len(d) - 1 <= Len(s)
    /\ SubSeq(s, i, i + Len(d) - 1) = d

\* end positions j of a match of  d(.*?)d  that starts at i: the closing
\* delimiter starts at j, and '.' does not match a line terminator
CloseAt(s, d, i) ==
    { j \in (i + Len(d))..Len(s) :
        /\ MatchAt(s, d, j)
        /\ \A k \in (i + Len(d))..(j - 1) : s[k] # NL }

Min(S) == CHOOSE x \in S : \A y \in S : x <= y
Max(a, b) == IF a >= b THEN a ELSE b

\* s.replace(/d(.*?)d/g, '<t>$1</t>') scanning from position i
RECURSIVE ReplacePairsFrom(_, _, _)
ReplacePairsFrom(s, d, i) ==
    IF i > Len(s) THEN <<>>
    ELSE IF MatchAt(s, d, i) /\ CloseAt(s, d, i) # {}
         THEN LET j == Min(CloseAt(s, d, i))
              IN  <<TagOpen>> \o SubSeq(s, i + Len(d), j - 1) \o <<TagClose>>
                    \o ReplacePairsFrom(s, d, j + Len(d))
         ELSE <<s[i]>> \o ReplacePairsFrom(s, d, i + 1)

ReplacePairs(s, d) == ReplacePairsFrom(s, d, 1)

RECURSIVE ReplaceNewlines(_)
ReplaceNewlines(s) ==
    IF s = <<>> THEN <<>>
    ELSE (IF Head(s) = NL THEN <<TagBr>> ELSE <<Head(s)>>)
            \o ReplaceNewlines(Tail(s))

\* Utils.parseFormatting: bold ** and __, then italic * and _, then <br>
parseFormatting(text) ==
    LET b1 == ReplacePairs(text, <<"*", "*">>)
        b2 == ReplacePairs(b1, <<"_", "_">>)
        i1 == ReplacePairs(b2, <<"*">>)
        i2 == ReplacePairs(i1, <<"_">>)
    IN  ReplaceNewlines(i2)

\* Utils.isEmojiOnly: /^[\p{Emoji}\s]+$/u on the trimmed text, at most 8 long
isEmojiOnly(text) ==
    LET t == Trim(text)
    IN  /\ Len(t) >= 1
        /\ \A k \in 1..Len(t) : t[k] \in EmojiChars \cup Whitespace
        /\ Len(t) <= 8

RECURSIVE StripTags(_)
StripTags(s) ==
    IF s = <<>> THEN <<>>
    ELSE (IF Head(s) \in Tags THEN <<>> ELSE <<Head(s)>>) \o StripTags(Tail(s))

\* the textContent of the .message-content element rendered for `content`
TextContent(content) ==
    IF isEmojiOnly(content) THEN content ELSE StripTags(parseFormatting(content))


(***************************************************************************)
(* Messages, ids and dates.                                                 *)
(***************************************************************************)
\* ids are <<namespace, n>>; 'temp-' + Date.now() lies in the "temp" namespace
NoId == <<"null", 0>>
TempId(t) == <<"temp", t>>
ServerId(n) == <<"srv", n>>
WelcomeId == <<"welcome", 1>>
\* message.id.startsWith('temp-')
IsTemp(id) == id[1] = "temp"

\* new Date(timestamp).toDateString(), as a day number
DateOf(ts) == ts \div TicksPerDay
\* Chat.lastMessageDate = null
NoDate == -1

Message(id, role, content, ts, options) ==
    [id |-> id, role |-> role, content |-> content, ts |-> ts,
     options |-> options]

\* a .message-wrapper child of the container.  `pending` is a history
\* field, not part of the page: it marks the wrapper created by the submit
\* whose send request is still outstanding.
MsgNode(message, optimistic, withOptions) ==
    [kind |-> "msg", id |-> message.id, role |-> message.role,
     content |-> message.content, ts |-> message.ts,
     optimistic |-> optimistic, failed |-> FALSE,
     options |-> IF withOptions THEN message.options ELSE <<>>,
     optionsShown |-> withOptions /\ message.options # <<>>,
     pending |-> FALSE]

\* Chat.createDateDivider: a .date-divider child of the container
createDateDivider(ts) ==
    [kind |-> "divider", id |-> NoId, role |-> "none", content |-> <<>>,
     ts |-> ts, optimistic |-> FALSE, failed |-> FALSE, options |-> <<>>,
     optionsShown |-> FALSE, pending |-> FALSE]

\* indexes of the message wrappers whose data-message-id starts with 'temp-'
TempIndexes(d) == { i \in 1..Len(d) : d[i].kind = "msg" /\ IsTemp(d[i].id) }

\* document.querySelector('[data-message-id^="temp-"]'): the first one, or 0
FirstTemp(d) == IF TempIndexes(d) = {} THEN 0 ELSE Min(TempIndexes(d))

\* the provisional entry addMessage reconciles `message` with, or 0: only
\* the first provisional wrapper is looked at, and its rendered text is
\* compared with the raw content of the arriving message
ReconcileTarget(d, message) ==
    LET i == FirstTemp(d)
    IN  IF i # 0 /\ TextContent(d[i].content) = message.content THEN i ELSE 0

\* a divider test that forgets that the first message gets none
DividerWantedFirstToo(lmd, messageDate) == lmd # messageDate

\* a divider is appended when the date changes, unless lastMessageDate is null
DividerWanted(lmd, messageDate) == lmd # messageDate /\ lmd # NoDate

\* Chat.addMessage(message) on container d with lastMessageDate lmd.
\* Result: the container, lastMessageDate, whether the call threw, and
\* whether a wrapper was appended.
addMessage(d, lmd, message) ==
    LET target == IF message.role = "user" /\ ~IsTemp(message.id)
                  THEN ReconcileTarget(d, message) ELSE 0
        messageDate == DateOf(message.ts)
        needDate == lmd # messageDate
        d1 == IF DividerWanted(lmd, messageDate)
              THEN Append(d, createDateDivider(message.ts)) ELSE d
        lmd1 == IF needDate THEN messageDate ELSE lmd
    IN  IF target # 0
        THEN [dom |-> [d EXCEPT ![target].id = message.id,
                                ![target].optimistic = FALSE],
              lmd |-> lmd, threw |-> FALSE, appended |-> FALSE]
        ELSE IF ~IsString(message.content)
        THEN \* Utils.isEmojiOnly: text.trim is not a function
             [dom |-> d1, lmd |-> lmd1, threw |-> TRUE, appended |-> FALSE]
        ELSE [dom |-> Append(d1, MsgNode(message, IsTemp(message.id), TRUE)),
              lmd |-> lmd1, threw |-> FALSE, appended |-> TRUE]

\* [...messages].sort((a, b) => new Date(a.timestamp) - new Date(b.timestamp))
\* (Array.prototype.sort is stable)
RECURSIVE InsertSorted(_, _)
InsertSorted(sorted, m) ==
    IF sorted = <<>> THEN <<m>>
    ELSE IF sorted[Len(sorted)].ts <= m.ts THEN Append(sorted, m)
    ELSE Append(InsertSorted(SubSeq(sorted, 1, Len(sorted) - 1), m),
                sorted[Len(sorted)])

RECURSIVE SortByTimestamp(_)
SortByTimestamp(ms) ==
    IF ms = <<>> THEN <<>>
    ELSE InsertSorted(SortByTimestamp(SubSeq(ms, 1, Len(ms) - 1)), ms[Len(ms)])

\* the document fragment Chat.prependMessages builds from the sorted page
RECURSIVE Fragment(_, _)
Fragment(sorted, lastDate) ==
    IF sorted = <<>> THEN <<>>
    ELSE LET m == Head(sorted)
             messageDate == DateOf(m.ts)
         IN  (IF lastDate # messageDate THEN <<createDateDivider(m.ts)>> ELSE <<>>)
               \o <<MsgNode(m, FALSE, FALSE)>>
               \o Fragment(Tail(sorted), messageDate)

\* Chat.prependMessages(messages) on container d
prependMessages(d, messages) ==
    Fragment(SortByTimestamp(messages), NoDate) \o d


(***************************************************************************)
(* Inputs.                                                                  *)
(***************************************************************************)
\* message contents: plain text, and text with emphasis markup
Contents == { <<"a">>, <<"b">>, <<"*", "a", "*">> }
\* texts the user types (before trimming)
InputValues == { <<>>, <<" ">> } \cup Contents
\* elements of a message's options array, as the server sends them
OptionValues == { <<"a">>, NonString }
OptionSets == { <<>> } \cup { <<o>> : o \in OptionValues }
\* server timestamps: the first tick of day 0 and of day 1
ServerTs == { 0, TicksPerDay }
ServerIdNumbers == 1..2

\* the server's messages: user messages of every content, assistant
\* messages of every timestamp, and assistant messages with options
UserMsgs ==
    { Message(ServerId(1), "user", c, 0, <<>>) : c \in Contents }
AssistantMsgs ==
    { Message(ServerId(2), "assistant", <<"b">>, t, <<>>) : t \in ServerTs }
      \cup { Message(ServerId(2), "assistant", <<"b">>, 0, o) : o \in OptionSets }
ServerMsgs == UserMsgs \cup AssistantMsgs
\* plain contents, and the user messages that carry them
PlainContents == { <<"a">>, <<"b">> }
PlainUserMsgs == { m \in UserMsgs : m.content \in PlainContents }
\* one assistant message
OneMsg == { Message(ServerId(2), "assistant", <<"b">>, 0, <<>>) }
\* the messages of history pages: both roles and both dates
PageMsgs ==
    { Message(ServerId(1), "user", <<"a">>, 0, <<>>) }
      \cup { Message(ServerId(2), "assistant", <<"b">>, t, <<>>) : t \in ServerTs }

\* messages of a stored conversation: both roles, timestamps on two dates
LoadMsgs ==
    { Message(ServerId(1), "user", <<"a">>, 0, <<>>) }
      \cup { Message(ServerId(2), "assistant", <<"b">>, t, <<>>) : t \in 0..TicksPerDay }

\* response.assistant_message of a send: a message or null
NoMessage == Message(NoId, "none", <<>>, 0, <<>>)
Replies == AssistantMsgs \cup { NoMessage }

\* the text argument of sendMessage when none is passed (null)
NoText == <<"#null">>
\* text || this.input.value.trim()
Truthy(text) == text # NoText /\ text # <<>>

\* error.message of a failed API.request
ErrorMessages == { "Unable to connect to server", "Server error" }
NoToast == "none"

(***************************************************************************)
(* State.                                                                   *)
(***************************************************************************)
VARIABLES
    now,              \* the client clock, Date.now()
    dom,              \* children of Chat.messagesContainer, in document order
    lastMessageDate,  \* Chat.lastMessageDate
    isSending,        \* Chat.isSending
    sendsInFlight,    \* API.sendMessage requests not yet resolved
    typing,           \* the typing indicator is displayed
    toast,            \* text of the last Utils.showToast
    appPc,            \* where App.init is suspended
    storedUserId,     \* Utils.storage.get('userId') is truthy
    loadsInFlight,    \* API.getLatestMessages requests not yet resolved
    isLoadingMore,    \* ScrollManager.isLoadingMore
    hasMoreMessages,  \* ScrollManager.hasMoreMessages
    oldestMessageId,  \* ScrollManager.oldestMessageId
    olderFetches,     \* API.getMessages requests not yet resolved
    clientHeight,     \* container.clientHeight, the height of the viewport
    scrollTop,        \* container.scrollTop
    scrollPending,    \* a scrollToBottom callback is queued
    wsSocket,         \* readyState of WS.socket, or "null"
    oldSockets,       \* live sockets WS.socket no longer refers to, by readyState
    reconnectAttempts,\* WS.reconnectAttempts
    reconnectTimers,  \* pending setTimeout(() => this.connect()) timers
    pingStored,       \* WS.pingInterval is the handle of a running timer
    pingLeaked,       \* running ping timers whose handle was overwritten
    closesSinceOpen,  \* history: close events since the last open event
    emptySeen,        \* history: an older page came back empty, and neither
                      \* Chat.clear nor a loaded list set the cursor up since
    consumed,         \* history: ids of the messages an option of which was clicked
    lastOp,           \* the operation that ran last, and its outcome
    lastArg           \* the input the last operation worked on

vars == <<now, dom, lastMessageDate, isSending, sendsInFlight, typing, toast,
          appPc, storedUserId, loadsInFlight, isLoadingMore, hasMoreMessages,
          oldestMessageId, olderFetches, clientHeight, scrollTop, scrollPending,
          wsSocket, oldSockets, reconnectAttempts, reconnectTimers, pingStored,
          pingLeaked, closesSinceOpen, emptySeen, consumed, lastOp, lastArg>>

chatVars == <<dom, lastMessageDate, isSending, sendsInFlight, typing, toast>>
appVars == <<appPc, storedUserId, loadsInFlight>>
pageVars == <<isLoadingMore, hasMoreMessages, oldestMessageId, olderFetches,
              emptySeen>>
scrollVars == <<scrollTop, scrollPending>>
envVars == <<now, clientHeight>>
wsVars == <<wsSocket, oldSockets, reconnectAttempts, reconnectTimers, pingStored,
            pingLeaked, closesSinceOpen>>

\* readyState values of a socket that can still deliver events
Live == {"CONNECTING", "OPEN", "CLOSING"}
\* the step worked on no input
NoArg == [kind |-> "none"]

\* container.scrollHeight: the content, or the viewport when that is taller
ScrollHeight(d) == Max(Len(d), clientHeight)
\* the largest scrollTop the browser allows
MaxScrollTop(d) == ScrollHeight(d) - clientHeight
\* assigning container.scrollTop clamps the value
Clamp(d, v) == IF v < 0 THEN 0 ELSE IF v > MaxScrollTop(d) THEN MaxScrollTop(d) ELSE v

\* App.init runs up to its first await: Chat.init and ScrollManager.init
\* install the handlers, then either API.getUser or API.createUser is awaited.
\* `height` is the height of the viewport the page is shown in.
InitIn(height) ==
    /\ now = 1
    /\ clientHeight = height
    /\ dom = <<>>
    /\ lastMessageDate = NoDate
    /\ isSending = FALSE
    /\ sendsInFlight = {}
    /\ typing = FALSE
    /\ toast = NoToast
    /\ storedUserId \in BOOLEAN
    /\ appPc = IF storedUserId THEN "getUser" ELSE "createUser"
    /\ loadsInFlight = {}
    /\ isLoadingMore = FALSE
    /\ hasMoreMessages = TRUE
    /\ oldestMessageId = NoId
    /\ olderFetches = <<>>
    /\ scrollTop = 0
    /\ scrollPending = FALSE
    /\ wsSocket = "null"
    /\ oldSockets = [s \in Live |-> 0]
    /\ reconnectAttempts = 0
    /\ reconnectTimers = 0
    /\ pingStored = FALSE
    /\ pingLeaked = 0
    /\ closesSinceOpen = 0
    /\ emptySeen = FALSE
    /\ consumed = {}
    /\ lastOp = <<"init", "ok">>
    /\ lastArg = NoArg

\* the clock advances
Tick ==
    /\ now < MaxClock
    /\ now' = now + 1
    /\ lastOp' = <<"tick", "ok">>
    /\ lastArg' = NoArg
    /\ UNCHANGED <<clientHeight, chatVars, appVars, pageVars, scrollVars, wsVars,
                   consumed>>


(***************************************************************************)
(* Chat (chat.js).                                                          *)
(***************************************************************************)
\* document.querySelector(`[data-message-id="${id}"]`), then classList.add('failed')
MarkFailed(d, id) ==
    LET hits == { i \in 1..Len(d) : d[i].kind = "msg" /\ d[i].id = id }
    IN  IF hits = {} THEN d ELSE [d EXCEPT ![Min(hits)].failed = TRUE]

\* a guard that forgets the in-flight check
SendRejectedEmptyOnly(content, sending) == content = <<>>

\* the guard of Chat.sendMessage: if (!content || this.isSending) return
SendRejected(content, sending) == content = <<>> \/ sending

\* Chat.sendMessage(text) up to its await, with `inputValue` in the input field
SendOutcome(text, inputValue) ==
    LET content == IF Truthy(text) THEN text ELSE Trim(inputValue)
        tempUserMsg == Message(TempId(now), "user", content, now, <<>>)
        r == addMessage(dom, lastMessageDate, tempUserMsg)
    IN  [rejected |-> SendRejected(content, isSending),
         why |-> IF content = <<>> THEN "empty" ELSE "busy",
         threw |-> r.threw, dom |-> r.dom, lmd |-> r.lmd,
         request |-> [origin |-> "chat", tempId |-> tempUserMsg.id,
                      content |-> content]]

\* history: the wrapper just appended belongs to the outstanding send
MarkPending(d) == [d EXCEPT ![Len(d)].pending = TRUE]
\* history: no send is outstanding any more
ClearPending(d) == [i \in 1..Len(d) |-> [d[i] EXCEPT !.pending = FALSE]]

\* container.style.display = 'none' on the options of node i (0: none)
HideOptions(d, i) == IF i = 0 THEN d ELSE [d EXCEPT ![i].optionsShown = FALSE]

\* a call of Chat.sendMessage(text), made through `via`; when it comes from
\* an option button, the button's container (node `clicked`) is hidden after
\* the call returns its promise
SendMessageCall(via, text, inputValue, clicked) ==
    LET o == SendOutcome(text, inputValue)
    IN  /\ UNCHANGED <<envVars, appVars, pageVars, toast, wsVars>>
        /\ lastArg' = [kind |-> "send", text |-> text, inputValue |-> inputValue]
        /\ consumed' = IF clicked = 0 THEN consumed
                       ELSE consumed \cup {dom[clicked].id}
        /\ IF o.rejected
           THEN /\ dom' = HideOptions(dom, clicked)
                /\ lastOp' = <<via, o.why>>
                /\ UNCHANGED <<lastMessageDate, isSending, sendsInFlight,
                               typing, scrollVars>>
           ELSE /\ Len(o.dom) <= MaxDom
                /\ isSending' = TRUE
                /\ lastMessageDate' = o.lmd
                /\ IF o.threw
                   THEN \* addMessage threw before the try block was entered
                        /\ dom' = HideOptions(o.dom, clicked)
                        /\ lastOp' = <<via, "threw">>
                        /\ UNCHANGED <<sendsInFlight, typing, scrollVars>>
                   ELSE /\ dom' = HideOptions(MarkPending(o.dom), clicked)
                        /\ sendsInFlight' = sendsInFlight \cup {o.request}
                        /\ typing' = TRUE
                        /\ scrollPending' = TRUE
                        /\ scrollTop' = scrollTop
                        /\ lastOp' = <<via, "accepted">>

\* the send button or the Enter key, with one of `inputs` in the input field
Submit(inputs) ==
    \E v \in inputs : SendMessageCall("submit", NoText, v, 0)

\* btn.onclick of a quick-reply option (Chat.renderOptions)
OptionClick ==
    \E i \in 1..Len(dom) :
        /\ dom[i].optionsShown
        /\ \E k \in 1..Len(dom[i].options), v \in InputValues :
               SendMessageCall("option", dom[i].options[k], v, i)

\* the catch block of Chat.sendMessage
SendCatch(d, req, message) ==
    /\ toast' = message
    /\ dom' = ClearPending(MarkFailed(d, req.tempId))

\* API.sendMessage of Chat.sendMessage resolves with response.assistant_message
SendSucceeds(req, reply) ==
    LET r == IF reply = NoMessage
             THEN [dom |-> dom, lmd |-> lastMessageDate, threw |-> FALSE]
             ELSE addMessage(dom, lastMessageDate, reply)
    IN  /\ Len(r.dom) <= MaxDom
        /\ lastMessageDate' = r.lmd
        /\ IF r.threw
           THEN /\ SendCatch(r.dom, req, "TypeError")
                /\ lastOp' = <<"sendResolve", "threw">>
                /\ UNCHANGED scrollPending
           ELSE /\ dom' = ClearPending(r.dom)
                /\ scrollPending' = TRUE
                /\ lastOp' = <<"sendResolve", "ok">>
                /\ UNCHANGED toast

\* API.sendMessage of Chat.sendMessage rejects with `message`
SendFails(req, message) ==
    /\ SendCatch(dom, req, message)
    /\ lastOp' = <<"sendResolve", "failed">>
    /\ UNCHANGED <<lastMessageDate, scrollPending>>

\* the continuation of Chat.sendMessage after its await, with the finally block
SendResolve(replies) ==
    \E req \in sendsInFlight :
        /\ req.origin = "chat"
        /\ \/ \E reply \in replies : SendSucceeds(req, reply)
           \/ \E message \in ErrorMessages : SendFails(req, message)
        /\ sendsInFlight' = sendsInFlight \ {req}
        /\ typing' = FALSE
        /\ isSending' = FALSE
        /\ lastArg' = NoArg
        /\ UNCHANGED <<envVars, appVars, pageVars, scrollTop, wsVars, consumed>>

\* Chat.addMessage(message) for a message of `messages` that arrives
ReceiveMessage(messages) ==
    \E message \in messages :
        LET r == addMessage(dom, lastMessageDate, message)
        IN  /\ Len(r.dom) <= MaxDom
            /\ dom' = r.dom
            /\ lastMessageDate' = r.lmd
            /\ scrollPending' = (scrollPending \/ (r.appended /\ message.role = "assistant"))
            /\ lastOp' = <<"addMessage", IF r.threw THEN "threw"
                                          ELSE IF r.appended THEN "appended"
                                          ELSE "reconciled">>
            /\ lastArg' = [kind |-> "message", message |-> message]
            /\ UNCHANGED <<envVars, isSending, sendsInFlight, typing, toast,
                           appVars, pageVars, scrollTop, wsVars, consumed>>


\* sequences of at most n messages of a set
PagesOf(messages, n) == UNION { [1..k -> messages] : k \in 0..n }

\* response.messages.forEach(message => this.addMessage(message))
RECURSIVE AddAll(_, _, _)
AddAll(d, lmd, messages) ==
    IF messages = <<>> THEN [dom |-> d, lmd |-> lmd, threw |-> FALSE]
    ELSE LET r == addMessage(d, lmd, Head(messages))
         IN  IF r.threw THEN [dom |-> r.dom, lmd |-> r.lmd, threw |-> TRUE]
             ELSE AddAll(r.dom, r.lmd, Tail(messages))

\* the container after a successful Chat.loadMessages response
LoadedList(d, lmd, page) ==
    IF page = <<>> THEN [dom |-> d, lmd |-> lmd, threw |-> FALSE]
    ELSE AddAll(<<>>, NoDate, page)

\* Chat.showTyping(true) followed by API.sendMessage(userId, 'hi')
GreetingRequest == [origin |-> "greeting", tempId |-> NoId, content |-> <<"h", "i">>]

\* App.init after `await Chat.loadMessages()`: an empty container triggers
\* the initial greeting, otherwise start-up is complete
AfterInitialLoad(d, pending) ==
    IF Len(d) = 0
    THEN /\ appPc' = "greeting"
         /\ typing' = TRUE
         /\ sendsInFlight' = sendsInFlight \cup {GreetingRequest}
         /\ scrollPending' = TRUE
    ELSE /\ appPc' = "done"
         /\ scrollPending' = pending
         /\ UNCHANGED <<typing, sendsInFlight>>

\* Chat.loadMessages is called again, after start-up (App.init calls it
\* once; it is also what re-establishes the list after Chat.clear); one such
\* call is modelled in flight at a time
LoadMessagesCall ==
    /\ appPc \in {"done", "failed"}
    /\ "call" \notin loadsInFlight
    /\ loadsInFlight' = loadsInFlight \cup {"call"}
    /\ lastOp' = <<"loadMessages", "called">>
    /\ lastArg' = NoArg
    /\ UNCHANGED <<envVars, chatVars, appPc, storedUserId, pageVars, scrollVars,
                   wsVars, consumed>>

\* history: the list the outstanding older-page fetches were issued for has
\* been cleared or replaced
MarkStale(q) == [i \in 1..Len(q) |-> [q[i] EXCEPT !.stale = TRUE]]

\* API.getLatestMessages resolves or rejects, and Chat.loadMessages finishes
LoadResolve(pages) ==
    \E origin \in loadsInFlight :
        /\ loadsInFlight' = loadsInFlight \ {origin}
        /\ \/ \E page \in pages :
                LET r == LoadedList(dom, lastMessageDate, page)
                    ok == page # <<>> /\ ~r.threw
                IN  /\ Len(r.dom) <= MaxDom
                    /\ dom' = r.dom
                    /\ lastMessageDate' = r.lmd
                    /\ oldestMessageId' = IF ok THEN page[1].id ELSE oldestMessageId
                    /\ toast' = IF r.threw THEN "Failed to load messages" ELSE toast
                    /\ scrollTop' = Clamp(r.dom, scrollTop)
                    /\ lastOp' = <<"loadResolve", IF r.threw THEN "threw"
                                                   ELSE IF ok THEN "ok" ELSE "empty">>
                    /\ \E has_more \in BOOLEAN :
                          /\ hasMoreMessages' = IF ok THEN has_more
                                                ELSE hasMoreMessages
                          /\ lastArg' = [kind |-> "latest", messages |-> page,
                                         has_more |-> has_more]
                    /\ olderFetches' = IF page # <<>> THEN MarkStale(olderFetches)
                                       ELSE olderFetches
                    /\ emptySeen' = IF ok THEN FALSE ELSE emptySeen
                    /\ IF origin = "init"
                       THEN AfterInitialLoad(r.dom, scrollPending \/ ok)
                       ELSE /\ scrollPending' = (scrollPending \/ ok)
                            /\ UNCHANGED <<appPc, typing, sendsInFlight>>
           \/ /\ toast' = "Failed to load messages"
              /\ lastOp' = <<"loadResolve", "failed">>
              /\ lastArg' = NoArg
              /\ UNCHANGED <<dom, lastMessageDate, hasMoreMessages,
                             oldestMessageId, scrollTop, olderFetches, emptySeen>>
              /\ IF origin = "init"
                 THEN AfterInitialLoad(dom, scrollPending)
                 ELSE UNCHANGED <<appPc, typing, sendsInFlight, scrollPending>>
        /\ UNCHANGED <<envVars, isSending, storedUserId, isLoadingMore, wsVars,
                       consumed>>

\* a showTyping that also releases the send guard
showTypingReleasesGuard(show) ==
    /\ typing' = show
    /\ scrollPending' = (scrollPending \/ show)
    /\ isSending' = FALSE
    /\ UNCHANGED <<dom, lastMessageDate>>

\* Chat.showTyping(show): the indicator is displayed or hidden (the status
\* text and the body class follow it), and showing ends with
\* ScrollManager.scrollToBottom()
showTyping(show) ==
    /\ typing' = show
    /\ scrollPending' = (scrollPending \/ show)
    /\ UNCHANGED <<dom, lastMessageDate, isSending>>

\* a call of Chat.showTyping(show), whoever makes it
ShowTypingCall ==
    \E show \in BOOLEAN :
        /\ showTyping(show)
        /\ lastOp' = <<"showTyping", IF typing = show THEN "same" ELSE "changed">>
        /\ lastArg' = [kind |-> "typing", show |-> show]
        /\ UNCHANGED <<envVars, sendsInFlight, toast, appVars, pageVars, scrollTop,
                       wsVars, consumed>>

\* a reset that forgets the cursor
ScrollManagerResetKeepsCursor ==
    /\ isLoadingMore' = FALSE
    /\ hasMoreMessages' = TRUE
    /\ UNCHANGED oldestMessageId

\* ScrollManager.reset
ScrollManagerReset ==
    /\ isLoadingMore' = FALSE
    /\ hasMoreMessages' = TRUE
    /\ oldestMessageId' = NoId

\* Chat.clear
ChatClear ==
    /\ dom' = <<>>
    /\ lastMessageDate' = NoDate
    /\ ScrollManagerReset
    /\ scrollTop' = 0
    /\ olderFetches' = MarkStale(olderFetches)
    /\ emptySeen' = FALSE
    /\ lastOp' = <<"clear", "ok">>
    /\ lastArg' = NoArg
    /\ UNCHANGED <<envVars, isSending, sendsInFlight, typing, toast, appVars,
                   scrollPending, wsVars, consumed>>

(***************************************************************************)
(* App (start-up).                                                          *)
(***************************************************************************)
\* the number of sockets that can still deliver events
LiveSockets ==
    (IF wsSocket \in Live THEN 1 ELSE 0)
      + oldSockets["CONNECTING"] + oldSockets["OPEN"] + oldSockets["CLOSING"]

\* WS.connect(): this.socket = new WebSocket(wsUrl) and its handlers; the
\* socket WS.socket referred to is neither closed nor stripped of its handlers
WSConnect ==
    /\ LiveSockets < MaxSockets
    /\ wsSocket' = "CONNECTING"
    /\ oldSockets' = IF wsSocket \in Live
                     THEN [oldSockets EXCEPT ![wsSocket] = @ + 1]
                     ELSE oldSockets
    /\ UNCHANGED <<reconnectAttempts, pingStored, pingLeaked, closesSinceOpen>>

\* App.init goes on to Chat.setUserId, WS.init and Chat.loadMessages
StartInitialLoad ==
    /\ appPc' = "loadMessages"
    /\ WSConnect
    /\ UNCHANGED reconnectTimers
    /\ loadsInFlight' = loadsInFlight \cup {"init"}

\* API.getUser resolves or rejects
GetUserResolve ==
    /\ appPc = "getUser"
    /\ \/ /\ StartInitialLoad
          /\ lastOp' = <<"getUser", "ok">>
          /\ UNCHANGED storedUserId
       \/ /\ appPc' = "createUser"
          /\ storedUserId' = FALSE
          /\ lastOp' = <<"getUser", "failed">>
          /\ UNCHANGED <<loadsInFlight, wsVars>>
    /\ lastArg' = NoArg
    /\ UNCHANGED <<envVars, chatVars, pageVars, scrollVars, consumed>>

\* API.createUser resolves (Utils.storage.set may fail silently) or rejects
CreateUserResolve ==
    /\ appPc = "createUser"
    /\ \/ /\ StartInitialLoad
          /\ storedUserId' \in BOOLEAN
          /\ lastOp' = <<"createUser", "ok">>
       \/ /\ appPc' = "failed"
          /\ lastOp' = <<"createUser", "failed">>
          /\ UNCHANGED <<storedUserId, loadsInFlight, wsVars>>
    /\ lastArg' = NoArg
    /\ UNCHANGED <<envVars, chatVars, pageVars, scrollVars, consumed>>

\* the default greeting App.triggerInitialGreeting shows on error
WelcomeMessage == Message(WelcomeId, "assistant", <<"w">>, now, <<>>)

\* API.sendMessage of App.triggerInitialGreeting resolves or rejects
GreetingResolve(replies) ==
    /\ appPc = "greeting"
    /\ GreetingRequest \in sendsInFlight
    /\ sendsInFlight' = sendsInFlight \ {GreetingRequest}
    /\ typing' = FALSE
    /\ appPc' = "done"
    /\ \/ \E reply \in replies :
            LET r == IF reply = NoMessage
                     THEN [dom |-> dom, lmd |-> lastMessageDate, threw |-> FALSE,
                           appended |-> FALSE]
                     ELSE addMessage(dom, lastMessageDate, reply)
                w == IF r.threw THEN addMessage(r.dom, r.lmd, WelcomeMessage) ELSE r
            IN  /\ Len(w.dom) <= MaxDom
                /\ dom' = w.dom
                /\ lastMessageDate' = w.lmd
                /\ scrollPending' = (scrollPending \/ w.appended)
                /\ lastOp' = <<"greeting", "ok">>
       \/ LET w == addMessage(dom, lastMessageDate, WelcomeMessage)
          IN  /\ Len(w.dom) <= MaxDom
              /\ dom' = w.dom
              /\ lastMessageDate' = w.lmd
              /\ scrollPending' = TRUE
              /\ lastOp' = <<"greeting", "failed">>
    /\ lastArg' = NoArg
    /\ UNCHANGED <<envVars, isSending, toast, storedUserId, loadsInFlight, pageVars,
                   scrollTop, wsVars, consumed>>


(***************************************************************************)
(* ScrollManager (scroll.js).                                               *)
(***************************************************************************)
\* a guard that forgets the isLoadingMore check
LoadOlderBlockedNoFlag(loading, hasMore, oldest) ==
    ~hasMore \/ oldest = NoId

\* a guard that forgets the cursor check
LoadOlderBlockedNoCursor(loading, hasMore, oldest) ==
    loading \/ ~hasMore

\* the guard of ScrollManager.loadOlderMessages
LoadOlderBlocked(loading, hasMore, oldest) ==
    loading \/ ~hasMore \/ oldest = NoId

\* a finally block that runs only after a page was prepended
LoadingAfterOlderKeptUnlessPage(outcome) == outcome # "page"

\* a finally block that leaves the flag set after a failed fetch
LoadingAfterOlderKeptOnError(outcome) == outcome = "failed"

\* isLoadingMore after the finally block of loadOlderMessages, whatever the
\* outcome: a page, an empty page, a failed fetch, or no stored user id
LoadingAfterOlder(outcome) == FALSE

\* ScrollManager.loadOlderMessages up to its await: the scroll height and
\* offset are read here, before API.getMessages is awaited
LoadOlderCall ==
    /\ UNCHANGED <<envVars, chatVars, appVars, hasMoreMessages, oldestMessageId,
                   emptySeen, scrollVars, wsVars, consumed>>
    /\ lastArg' = NoArg
    /\ IF LoadOlderBlocked(isLoadingMore, hasMoreMessages, oldestMessageId)
       THEN /\ lastOp' = <<"loadOlder", "noop">>
            /\ UNCHANGED <<isLoadingMore, olderFetches>>
       ELSE IF ~storedUserId
       THEN \* if (!userId) return; the finally block clears the flag
            /\ lastOp' = <<"loadOlder", "nouser">>
            /\ isLoadingMore' = LoadingAfterOlder("nouser")
            /\ UNCHANGED olderFetches
       ELSE /\ Len(olderFetches) < MaxFetches
            /\ isLoadingMore' = TRUE
            /\ olderFetches' = Append(olderFetches,
                   [cursor |-> oldestMessageId,
                    scrollHeight |-> ScrollHeight(dom),
                    scrollTop |-> scrollTop,
                    stale |-> FALSE])
            /\ lastOp' = <<"loadOlder", "fetch">>

RemoveAt(q, i) == SubSeq(q, 1, i - 1) \o SubSeq(q, i + 1, Len(q))

\* response.next_cursor: absent, or a message id
Cursors == { NoId } \cup { ServerId(n) : n \in ServerIdNumbers }

\* this.oldestMessageId = response.next_cursor || response.messages[0].id
NextOldest(next_cursor, page) ==
    IF next_cursor # NoId THEN next_cursor ELSE page[1].id

\* this.container.scrollTop = scrollTop + (newScrollHeight - scrollHeight)
RestoredScrollTop(fetch, d) ==
    Clamp(d, fetch.scrollTop + (ScrollHeight(d) - fetch.scrollHeight))

\* API.getMessages resolves or rejects and loadOlderMessages finishes
OlderResolve(pages) ==
    \E i \in 1..Len(olderFetches) :
        LET fetch == olderFetches[i]
        IN  /\ olderFetches' = RemoveAt(olderFetches, i)
            /\ \/ \E page \in pages \ {<<>>} :
                     LET d == prependMessages(dom, page)
                     IN  /\ Len(d) <= MaxDom
                         /\ dom' = d
                         /\ scrollTop' = RestoredScrollTop(fetch, d)
                         /\ lastOp' = <<"olderResolve", "page">>
                         /\ isLoadingMore' = LoadingAfterOlder("page")
                         /\ \E has_more \in BOOLEAN, next_cursor \in Cursors :
                               /\ oldestMessageId' = NextOldest(next_cursor, page)
                               /\ hasMoreMessages' = has_more
                               /\ lastArg' = [kind |-> "older", messages |-> page,
                                              has_more |-> has_more,
                                              next_cursor |-> next_cursor,
                                              stale |-> fetch.stale]
                         /\ UNCHANGED <<toast, emptySeen>>
               \/ /\ hasMoreMessages' = FALSE
                  /\ emptySeen' = TRUE
                  /\ lastOp' = <<"olderResolve", "empty">>
                  /\ isLoadingMore' = LoadingAfterOlder("empty")
                  /\ lastArg' = [kind |-> "older", messages |-> <<>>,
                                 has_more |-> FALSE, next_cursor |-> NoId,
                                 stale |-> fetch.stale]
                  /\ UNCHANGED <<dom, oldestMessageId, scrollTop, toast>>
               \/ /\ toast' = "Failed to load older messages"
                  /\ lastOp' = <<"olderResolve", "failed">>
                  /\ isLoadingMore' = LoadingAfterOlder("failed")
                  /\ lastArg' = [kind |-> "olderFailed", cursor |-> fetch.cursor]
                  /\ UNCHANGED <<dom, oldestMessageId, hasMoreMessages, scrollTop,
                                 emptySeen>>
            /\ UNCHANGED <<envVars, lastMessageDate, isSending, sendsInFlight, typing,
                           appVars, scrollPending, wsVars, consumed>>

\* the user scrolls the container
UserScroll ==
    \E v \in 0..MaxScrollTop(dom) :
        /\ v # scrollTop
        /\ scrollTop' = v
        /\ lastOp' = <<"scroll", "user">>
        /\ lastArg' = NoArg
        /\ UNCHANGED <<envVars, chatVars, appVars, pageVars, scrollPending, wsVars,
                       consumed>>

\* the callback queued by ScrollManager.scrollToBottom runs
ScrollToBottomRun ==
    /\ scrollPending
    /\ scrollPending' = FALSE
    /\ scrollTop' = MaxScrollTop(dom)
    /\ lastOp' = <<"scroll", "bottom">>
    /\ lastArg' = NoArg
    /\ UNCHANGED <<envVars, chatVars, appVars, pageVars, wsVars, consumed>>

(***************************************************************************)
(* WS (websocket.js).                                                       *)
(***************************************************************************)
\* a retry guard that is off by one
ShouldReconnectInclusive(attempts) == attempts <= maxReconnectAttempts

\* onclose: if (this.reconnectAttempts < this.maxReconnectAttempts)
ShouldReconnect(attempts) == attempts < maxReconnectAttempts

\* what no WS step touches
notWsVars == <<envVars, chatVars, appVars, pageVars, scrollVars, consumed>>

\* an onopen that leaves the counter alone
OnOpenKeepsAttempts ==
    /\ pingStored => pingLeaked < MaxTimers
    /\ closesSinceOpen' = 0
    /\ pingStored' = TRUE
    /\ pingLeaked' = IF pingStored THEN pingLeaked + 1 ELSE pingLeaked
    /\ UNCHANGED <<reconnectAttempts, reconnectTimers>>

\* socket.onopen: the counter is reset and a ping timer is started, its
\* handle stored over the previous one
OnOpen ==
    /\ pingStored => pingLeaked < MaxTimers
    /\ reconnectAttempts' = 0
    /\ closesSinceOpen' = 0
    /\ pingStored' = TRUE
    /\ pingLeaked' = IF pingStored THEN pingLeaked + 1 ELSE pingLeaked
    /\ UNCHANGED reconnectTimers

\* socket.onclose: clearInterval(this.pingInterval), then a retry is
\* scheduled while the budget lasts
OnClose ==
    /\ pingStored' = FALSE
    /\ closesSinceOpen' = IF closesSinceOpen <= maxReconnectAttempts
                          THEN closesSinceOpen + 1 ELSE closesSinceOpen
    /\ IF ShouldReconnect(reconnectAttempts)
       THEN /\ reconnectTimers < MaxTimers
            /\ reconnectAttempts' = reconnectAttempts + 1
            /\ reconnectTimers' = reconnectTimers + 1
       ELSE UNCHANGED <<reconnectAttempts, reconnectTimers>>
    /\ UNCHANGED pingLeaked

\* the open event of a connecting socket: WS.socket or an earlier one
SocketOpens ==
    /\ \/ /\ wsSocket = "CONNECTING"
          /\ wsSocket' = "OPEN"
          /\ UNCHANGED oldSockets
       \/ /\ oldSockets["CONNECTING"] > 0
          /\ oldSockets' = [oldSockets EXCEPT !["CONNECTING"] = @ - 1,
                                              !["OPEN"] = @ + 1]
          /\ UNCHANGED wsSocket
    /\ OnOpen
    /\ lastOp' = <<"socket", "open">>
    /\ lastArg' = NoArg
    /\ UNCHANGED notWsVars

\* the close event of a live socket: the connection failed, dropped, or
\* close() completed
SocketCloses ==
    /\ \/ /\ wsSocket \in Live
          /\ wsSocket' = "CLOSED"
          /\ UNCHANGED oldSockets
       \/ \E st \in Live :
             /\ oldSockets[st] > 0
             /\ oldSockets' = [oldSockets EXCEPT ![st] = @ - 1]
             /\ UNCHANGED wsSocket
    /\ OnClose
    /\ lastOp' = <<"socket", "close">>
    /\ lastArg' = NoArg
    /\ UNCHANGED notWsVars

\* socket.onerror: the error is logged
SocketError ==
    /\ LiveSockets > 0
    /\ lastOp' = <<"socket", "error">>
    /\ lastArg' = NoArg
    /\ UNCHANGED <<notWsVars, wsVars>>

\* WS.connect() called explicitly (WS.init(userId) does the same)
WSConnectCall ==
    /\ WSConnect
    /\ lastOp' = <<"ws", "connect">>
    /\ lastArg' = NoArg
    /\ UNCHANGED <<notWsVars, reconnectTimers>>

\* WS.close(): if (this.socket) this.socket.close()
WSCloseCall ==
    /\ wsSocket' = IF wsSocket \in {"CONNECTING", "OPEN"} THEN "CLOSING" ELSE wsSocket
    /\ lastOp' = <<"ws", "close">>
    /\ lastArg' = NoArg
    /\ UNCHANGED <<notWsVars, oldSockets, reconnectAttempts, reconnectTimers,
                   pingStored, pingLeaked, closesSinceOpen>>

\* a timer set by onclose fires: this.connect()
ReconnectTimerFires ==
    /\ reconnectTimers > 0
    /\ reconnectTimers' = reconnectTimers - 1
    /\ WSConnect
    /\ lastOp' = <<"ws", "reconnect">>
    /\ lastArg' = NoArg
    /\ UNCHANGED notWsVars

\* event.data of inbound frames: text that is not JSON, JSON that is not an
\* object, an object without an event, the two typing events and an event
\* this client does not know
TypingStartFrame == "{\"event\":\"typing_start\"}"
TypingEndFrame == "{\"event\":\"typing_end\"}"
TypingFrames == { TypingStartFrame, TypingEndFrame }
Frames ==
    { "{", "null", "5", "{}", "{\"event\":\"pong\"}" } \cup TypingFrames

\* JSON.parse(event.data): a SyntaxError, or the value with its event
\* property (undefined when the value has none)
JSONParse(data) ==
    CASE data = "{" -> [threw |-> TRUE, type |-> "none", event |-> "undefined"]
      [] data = "null" -> [threw |-> FALSE, type |-> "null", event |-> "undefined"]
      [] data = "5" -> [threw |-> FALSE, type |-> "number", event |-> "undefined"]
      [] data = "{}" -> [threw |-> FALSE, type |-> "object", event |-> "undefined"]
      [] data = TypingStartFrame ->
             [threw |-> FALSE, type |-> "object", event |-> "typing_start"]
      [] data = TypingEndFrame ->
             [threw |-> FALSE, type |-> "object", event |-> "typing_end"]
      [] OTHER -> [threw |-> FALSE, type |-> "object", event |-> "pong"]

\* a handler that hides the indicator on every event but typing_start
TypingAfterElseHidden(event, shown) == event = "typing_start"

\* the typing indicator after WS.handleEvent saw `event`
TypingAfter(event, shown) ==
    IF event = "typing_start" THEN TRUE
    ELSE IF event = "typing_end" THEN FALSE
    ELSE shown

\* socket.onmessage of an open socket, WS.socket or an earlier one: the frame
\* is parsed and handed to WS.handleEvent inside one try block.
\* `const { event } = data` throws for null; the catch block logs the error.
SocketMessage(frames) ==
    /\ wsSocket = "OPEN" \/ oldSockets["OPEN"] > 0
    /\ \E data \in frames :
          LET parsed == JSONParse(data)
              threw == parsed.threw \/ parsed.type = "null"
              event == IF threw THEN "undefined" ELSE parsed.event
          IN  /\ typing' = TypingAfter(event, typing)
              \* Chat.showTyping(true) ends with ScrollManager.scrollToBottom()
              /\ scrollPending' = (scrollPending \/ event = "typing_start")
              /\ lastOp' = <<"frame", IF threw THEN "caught"
                                       ELSE IF event \in {"typing_start", "typing_end"}
                                       THEN "typing" ELSE "ignored">>
              /\ lastArg' = [kind |-> "frame", data |-> data]
    /\ UNCHANGED <<envVars, dom, lastMessageDate, isSending, sendsInFlight, toast,
                   appVars, pageVars, scrollTop, wsVars, consumed>>

\* a timer callback that sends on any socket not yet closed
PingSendsUnlessClosed(readyState) == readyState # "CLOSED"

\* the test of the timer callback: this.socket.readyState === WebSocket.OPEN
PingSends(readyState) == readyState = "OPEN"

\* a ping timer fires: a ping is sent if WS.socket is open
PingTick ==
    /\ pingStored \/ pingLeaked > 0
    /\ lastOp' = <<"ping", IF PingSends(wsSocket) THEN "sent" ELSE "skipped">>
    /\ lastArg' = NoArg
    /\ UNCHANGED <<notWsVars, wsVars>>

(***************************************************************************)
(* API (websocket.js, second half).                                         *)
(***************************************************************************)
\* messages of the errors API.request throws itself
TooManyMessages == "Too many messages. Please slow down and try again in a minute."
ServerError == "Server error. Please try again later."
UnableToConnect == "Unable to connect to server. Please check your connection."
AnErrorOccurred == "An error occurred"

\* message of the TypeError fetch() rejects with on a network failure; the
\* Fetch standard leaves the text to the implementation (Chromium, Firefox,
\* Node, WebKit)
FetchFailures ==
    { "Failed to fetch", "NetworkError when attempting to fetch resource.",
      "fetch failed", "Load failed" }
\* messages of the exceptions the runtime raises inside API.request
NotJSON == "Unexpected token '<' is not valid JSON"
NullDetail == "Cannot read properties of null (reading 'detail')"

\* error.message.includes('fetch'), for the messages above
IncludesFetch(message) ==
    message \in { "Failed to fetch",
                  "NetworkError when attempting to fetch resource.",
                  "fetch failed" }

\* response.status of the responses considered
Statuses ==
    { 200, 201, 204, 299, 300, 304, 400, 401, 404, 422, 428, 429, 430, 499,
      500, 502, 503, 599 }
\* response.ok
ResponseOk(status) == status \in 200..299

\* the detail property of a response body: absent, the empty string, a
\* string, or a list of objects (a validation error)
NoDetail == "#undefined"
DetailList == "#list"
Details == { NoDetail, "", "Not found", DetailList }
\* response bodies: text that is not JSON, JSON null, or a JSON object
Bodies ==
    { [kind |-> "text", detail |-> NoDetail], [kind |-> "null", detail |-> NoDetail] }
      \cup { [kind |-> "object", detail |-> d] : d \in Details }

\* what `await fetch(url, config)` settles with
FetchOutcomes ==
    { [rejected |-> TRUE, message |-> m, status |-> 0,
       body |-> [kind |-> "text", detail |-> NoDetail]] : m \in FetchFailures }
      \cup { [rejected |-> FALSE, message |-> "", status |-> st, body |-> b] :
               st \in Statuses, b \in Bodies }

\* the promise of API.request is rejected with an error / resolved with data
Thrown(name, message) ==
    [failed |-> TRUE, name |-> name, message |-> message,
     data |-> [kind |-> "none", detail |-> NoDetail]]
Returned(data) ==
    [failed |-> FALSE, name |-> "none", message |-> "", data |-> data]

\* String(detail), the message new Error(detail) gets
StringOf(detail) == IF detail = DetailList THEN "[object Object]" ELSE detail
\* data.detail || 'An error occurred'
DetailOrGeneric(detail) ==
    IF detail \in {NoDetail, ""} THEN AnErrorOccurred ELSE StringOf(detail)

\* the try block of API.request
requestTry(f) ==
    IF f.rejected THEN Thrown("TypeError", f.message)
    ELSE IF f.status = 429 THEN Thrown("Error", TooManyMessages)
    ELSE IF f.status >= 500 THEN Thrown("Error", ServerError)
    ELSE IF f.body.kind = "text" THEN Thrown("SyntaxError", NotJSON)
    ELSE IF ~ResponseOk(f.status)
         THEN IF f.body.kind = "null" THEN Thrown("TypeError", NullDetail)
              ELSE Thrown("Error", DetailOrGeneric(f.body.detail))
    ELSE Returned(f.body)

\* API.request: the catch block rewrites a TypeError that mentions fetch and
\* rethrows every other error as it is
request(f) ==
    LET r == requestTry(f)
    IN  IF r.failed /\ r.name = "TypeError" /\ IncludesFetch(r.message)
        THEN Thrown("Error", UnableToConnect)
        ELSE r

\* a call of API.request whose fetch settles with one of `outcomes`
ApiRequest(outcomes) ==
    \E f \in outcomes :
        /\ lastOp' = <<"request", IF request(f).failed THEN "threw" ELSE "returned">>
        /\ lastArg' = [kind |-> "request", fetch |-> f, result |-> request(f)]
        /\ UNCHANGED <<envVars, chatVars, appVars, pageVars, scrollVars, wsVars,
                       consumed>>

(***************************************************************************)
(* Specifications.                                                          *)
(***************************************************************************)
\* the whole client
Next ==
    \/ Tick
    \/ Submit(InputValues)
    \/ OptionClick
    \/ SendResolve(Replies)
    \/ ReceiveMessage(ServerMsgs)
    \/ LoadMessagesCall
    \/ LoadResolve(PagesOf(ServerMsgs, MaxPage))
    \/ ChatClear
    \/ GetUserResolve
    \/ CreateUserResolve
    \/ GreetingResolve(Replies)
    \/ LoadOlderCall
    \/ OlderResolve(PagesOf(ServerMsgs, MaxPage))
    \/ UserScroll
    \/ ScrollToBottomRun
    \/ SocketOpens
    \/ SocketCloses
    \/ SocketError
    \/ WSConnectCall
    \/ WSCloseCall
    \/ ReconnectTimerFires
    \/ PingTick
    \/ SocketMessage(Frames)
    \/ ShowTypingCall
    \/ ApiRequest(FetchOutcomes)

Init == InitIn(ShortViewport)

Spec == Init /\ [][Next]_vars

\* The whole client is too large to enumerate; each specification below is
\* the client with part of its environment silent.

\* the send path: submits, quick replies and send completions
NextSend ==
    \/ Tick
    \/ Submit(InputValues)
    \/ OptionClick
    \/ SendResolve(Replies)

SpecSend == InitIn(MaxDom) /\ [][NextSend]_vars

\* the send path with user messages arriving from the server
NextReconcile ==
    \/ Tick
    \/ Submit(PlainContents)
    \/ SendResolve({NoMessage})
    \/ ReceiveMessage(PlainUserMsgs)

SpecReconcile == InitIn(MaxDom) /\ [][NextReconcile]_vars

\* start-up (App.init) with the user already typing
NextStart ==
    \/ Tick
    \/ Submit({<<>>, <<"a">>})
    \/ SendResolve(Replies)
    \/ GetUserResolve
    \/ CreateUserResolve
    \/ LoadResolve(PagesOf(PageMsgs, MaxPage))
    \/ GreetingResolve(Replies)

SpecStart == InitIn(MaxDom) /\ [][NextStart]_vars

\* history: initial loads, older pages and clearing, in a tall viewport
NextPage ==
    \/ GetUserResolve
    \/ CreateUserResolve
    \/ LoadResolve(PagesOf(PageMsgs, MaxPage))
    \/ GreetingResolve({NoMessage})
    \/ LoadMessagesCall
    \/ ChatClear
    \/ LoadOlderCall
    \/ OlderResolve(PagesOf(PageMsgs, MaxPage))

SpecPage == InitIn(MaxDom) /\ [][NextPage]_vars

\* older pages in a short viewport, with scrolling and arriving messages
NextScroll ==
    \/ GetUserResolve
    \/ CreateUserResolve
    \/ LoadResolve(PagesOf(OneMsg, MaxPage))
    \/ GreetingResolve({NoMessage})
    \/ ReceiveMessage(OneMsg)
    \/ LoadOlderCall
    \/ OlderResolve(PagesOf(OneMsg, MaxPage))
    \/ UserScroll
    \/ ScrollToBottomRun

SpecScroll == InitIn(ShortViewport) /\ [][NextScroll]_vars

\* the latest-messages responses of a server that returns them oldest first
LoadPages ==
    { page \in PagesOf(LoadMsgs, MaxLoad) :
        \A i, j \in 1..Len(page) : i < j => page[i].ts <= page[j].ts }

\* labels of quick-reply options: text, or only white space
OptionTexts == { <<"a">>, <<" ">> }
\* a stored assistant message that offers one option
OptionMsgs ==
    { Message(ServerId(2), "assistant", <<"b">>, 0, <<o>>) : o \in OptionTexts }

\* quick replies: a stored conversation whose last message offers an option
NextOptions ==
    \/ Submit({<<>>, <<"a">>})
    \/ OptionClick
    \/ SendResolve({NoMessage})
    \/ GetUserResolve
    \/ CreateUserResolve
    \/ LoadResolve(PagesOf(OptionMsgs, 1))
    \/ GreetingResolve({NoMessage})
    \/ LoadMessagesCall

SpecOptions == InitIn(MaxDom) /\ [][NextOptions]_vars

\* a stored conversation: its newest message, and the two before it
NewestMsg == Message(ServerId(3), "assistant", <<"b">>, TicksPerDay, <<>>)
OlderMsgs ==
    { Message(ServerId(1), "user", <<"a">>, 0, <<>>),
      Message(ServerId(2), "assistant", <<"b">>, 1, <<>>) }

\* backward pagination of that conversation: the server returns the newest
\* message first, then pages of the messages before it, in either order
NextOlder ==
    \/ GetUserResolve
    \/ CreateUserResolve
    \/ LoadResolve(PagesOf({NewestMsg}, 1))
    \/ GreetingResolve({NoMessage})
    \/ LoadOlderCall
    \/ OlderResolve(PagesOf(OlderMsgs, MaxPage))

SpecOlder == InitIn(MaxDom) /\ [][NextOlder]_vars

\* backward pagination with the list cleared at any time;
\* every API.getMessages request is answered or fails in the end
NextOlderReset ==
    \/ NextOlder
    \/ ChatClear

SpecOlderReset == InitIn(MaxDom) /\ [][NextOlderReset]_vars

\* the same, with Chat.loadMessages called again at any time
NextOlderReload ==
    \/ NextOlderReset
    \/ LoadMessagesCall

SpecOlderReload == InitIn(MaxDom) /\ [][NextOlderReload]_vars

SpecOlderLive ==
    SpecOlderReset /\ WF_vars(OlderResolve(PagesOf(OlderMsgs, MaxPage)))

\* initial loads of a stored conversation
NextLoad ==
    \/ GetUserResolve
    \/ CreateUserResolve
    \/ LoadResolve(LoadPages)
    \/ GreetingResolve({NoMessage})
    \/ LoadMessagesCall

SpecLoad == InitIn(MaxDom) /\ [][NextLoad]_vars

\* the transport: start-up up to WS.init, then the socket's life
NextWS ==
    \/ GetUserResolve
    \/ CreateUserResolve
    \/ SocketOpens
    \/ SocketCloses
    \/ SocketError
    \/ WSConnectCall
    \/ WSCloseCall
    \/ ReconnectTimerFires
    \/ PingTick

SpecWS == InitIn(MaxDom) /\ [][NextWS]_vars

\* inbound frames, while the user sends messages and the socket comes and goes
NextFrames ==
    \/ GetUserResolve
    \/ CreateUserResolve
    \/ Submit({<<"a">>})
    \/ SendResolve({NoMessage})
    \/ SocketOpens
    \/ SocketCloses
    \/ ReconnectTimerFires
    \/ SocketMessage(Frames)

SpecFrames == InitIn(MaxDom) /\ [][NextFrames]_vars

\* the transport at work during a conversation: a stored message is loaded,
\* the user sends messages, the socket opens, closes, reconnects and delivers
\* frames, and the typing indicator is switched
NextTransport ==
    \/ GetUserResolve
    \/ CreateUserResolve
    \/ LoadResolve(PagesOf({NewestMsg}, 1))
    \/ GreetingResolve({NoMessage})
    \/ Submit({<<"a">>})
    \/ SendResolve({NoMessage})
    \/ SocketOpens
    \/ SocketCloses
    \/ SocketError
    \/ WSCloseCall
    \/ ReconnectTimerFires
    \/ PingTick
    \/ SocketMessage(Frames)
    \/ ShowTypingCall

SpecTransport == InitIn(MaxDom) /\ [][NextTransport]_vars

\* the typing indicator in a short viewport: the user sends a message and
\* scrolls, frames arrive
NextTyping ==
    \/ GetUserResolve
    \/ CreateUserResolve
    \/ LoadResolve(PagesOf(OneMsg, MaxPage))
    \/ GreetingResolve({NoMessage})
    \/ Submit({<<"a">>})
    \/ SendResolve({NoMessage})
    \/ SocketOpens
    \/ SocketMessage(TypingFrames)
    \/ ShowTypingCall
    \/ UserScroll
    \/ ScrollToBottomRun

SpecTyping == InitIn(ShortViewport) /\ [][NextTyping]_vars

\* requests to the backend, whatever they settle with
NextRequest == ApiRequest(FetchOutcomes)

SpecRequest == InitIn(MaxDom) /\ [][NextRequest]_vars

(***************************************************************************)
(* Properties.                                                              *)
(***************************************************************************)
\* the message wrappers of a container, in document order
MsgIndexes(d) == { i \in 1..Len(d) : d[i].kind = "msg" }
\* the container without the visibility of its option buttons
Entries(d) == [i \in 1..Len(d) |-> [d[i] EXCEPT !.optionsShown = FALSE]]
\* the step is a call of Chat.sendMessage
IsSendCall == lastOp'[1] \in {"submit", "option"}

\* C1 (No duplication): whenever Chat.addMessage appends a user message with
\* a server id, no provisional entry with the same content was in the list
\* (such an entry must be rewritten in place instead).
C1_NoDuplication ==
    [][ (lastOp' = <<"addMessage", "appended">> /\ dom'[Len(dom')].role = "user")
          => ~\E i \in TempIndexes(dom) : dom[i].content = dom'[Len(dom')].content
      ]_vars

\* C2 (Failure preserves visibility): when the send of an accepted submit
\* fails, the wrapper that submit created is in the list, is flagged failed
\* afterwards, and the error is shown to the user.
C2_FailureKeepsEntry ==
    [][ lastOp' = <<"sendResolve", "failed">>
          => /\ \E i \in 1..Len(dom) :
                   dom[i].pending /\ i <= Len(dom') /\ dom'[i].failed
             /\ toast' \in ErrorMessages
      ]_vars

\* C3 (Single-flight submit): a call of Chat.sendMessage made while
\* isSending is true is rejected: no entry is created, no request is issued,
\* and the message list is as before.
C3_SingleFlightSubmit ==
    [][ (isSending /\ IsSendCall)
          => /\ lastOp'[2] \in {"busy", "empty"}
             /\ Entries(dom') = Entries(dom)
             /\ sendsInFlight' = sendsInFlight
             /\ lastMessageDate' = lastMessageDate
      ]_vars

\* a submit with text was rejected while a send request is outstanding
C3_Witness ==
    /\ lastOp = <<"submit", "busy">>
    /\ isSending
    /\ \E req \in sendsInFlight : req.origin = "chat"

\* C4: at most one send-message request is outstanding, whoever issued it.
C4_OneSendOutstanding == Cardinality(sendsInFlight) <= 1

\* C5 (Guard release): isSending is true only while Chat.sendMessage is
\* suspended at its request; once the operation has returned, on any path,
\* the guard is released.
C5_GuardReleased ==
    isSending => \E req \in sendsInFlight : req.origin = "chat"

\* C6 (Pagination idempotence): a loadOlderMessages call that directly
\* follows a call that issued a fetch issues none and leaves the cursor alone.
C6_PaginationIdempotent ==
    [][ (lastOp = <<"loadOlder", "fetch">> /\ lastOp'[1] = "loadOlder")
          => /\ lastOp'[2] = "noop"
             /\ olderFetches' = olderFetches
             /\ oldestMessageId' = oldestMessageId
             /\ hasMoreMessages' = hasMoreMessages
      ]_vars

\* a second call returned while the fetch of the first is outstanding
C6_Witness ==
    /\ lastOp = <<"loadOlder", "noop">>
    /\ isLoadingMore
    /\ Len(olderFetches) = 1

\* C7: at most one older-page fetch is outstanding.
C7_OneOlderFetch == Len(olderFetches) <= 1

\* C8 (Ordering invariant): the messages of the list are in ascending
\* timestamp order.
C8_OrderedByTimestamp ==
    \A i, j \in MsgIndexes(dom) : i < j => dom[i].ts <= dom[j].ts

\* C9 (Divider placement): two neighbouring messages have a date divider
\* between them exactly when their calendar dates differ.
C9_DividersAtDateBoundaries ==
    \A i, j \in MsgIndexes(dom) :
        (i < j /\ \A k \in (i + 1)..(j - 1) : dom[k].kind = "divider")
          => ((j - i > 1) <=> (DateOf(dom[i].ts) # DateOf(dom[j].ts)))

\* C10 (Anchor preservation): a prepend moves the scroll offset by exactly
\* the growth of the scroll extent.
C10_AnchorPreserved ==
    [][ lastOp' = <<"olderResolve", "page">>
          => scrollTop' = scrollTop + (ScrollHeight(dom') - ScrollHeight(dom))
      ]_vars

\* C11 (Reconnect budget): a close event that follows maxReconnectAttempts
\* or more close events with no open event in between schedules no reconnect;
\* every open event resets reconnectAttempts to zero, and the close event
\* that follows an open event schedules a reconnect again.
C11_ReconnectBudget ==
    [][ /\ (lastOp' = <<"socket", "close">>
              /\ closesSinceOpen >= maxReconnectAttempts)
            => /\ reconnectTimers' = reconnectTimers
               /\ reconnectAttempts' = reconnectAttempts
        /\ lastOp' = <<"socket", "open">> => reconnectAttempts' = 0
        /\ (lastOp' = <<"socket", "close">> /\ closesSinceOpen = 0
              /\ lastOp = <<"socket", "open">>)
            => reconnectTimers' = reconnectTimers + 1
      ]_vars

\* a sixth close event in a row has happened and no reconnect is pending
C11_Witness ==
    /\ lastOp = <<"socket", "close">>
    /\ closesSinceOpen > maxReconnectAttempts
    /\ reconnectTimers = 0

\* the messages of a response are in ascending timestamp order
Ascending(ms) == \A i, j \in 1..Len(ms) : i < j => ms[i].ts <= ms[j].ts
\* the calendar dates of the messages of a response
DatesOf(ms) == { DateOf(ms[i].ts) : i \in 1..Len(ms) }
\* the date dividers of a container
DividerIndexes(d) == { i \in 1..Len(d) : d[i].kind = "divider" }

\* C12: a successful initial load of messages in ascending order over k
\* dates renders exactly k - 1 dividers, each between a message of one date
\* and a message of the next.
C12_InitialLoadDividers ==
    [][ (lastOp' = <<"loadResolve", "ok">> /\ Ascending(lastArg'.messages))
          => /\ Cardinality(DividerIndexes(dom'))
                  = Cardinality(DatesOf(lastArg'.messages)) - 1
             /\ \A i \in DividerIndexes(dom') :
                   /\ 1 < i /\ i < Len(dom')
                   /\ dom'[i - 1].kind = "msg" /\ dom'[i + 1].kind = "msg"
                   /\ DateOf(dom'[i - 1].ts) < DateOf(dom'[i + 1].ts)
      ]_vars

\* three messages over two dates were loaded and one divider is shown
C12_Witness ==
    /\ lastOp = <<"loadResolve", "ok">>
    /\ Len(lastArg.messages) = 3
    /\ Ascending(lastArg.messages)
    /\ Cardinality(DatesOf(lastArg.messages)) = 2
    /\ Cardinality(DividerIndexes(dom)) = 1

\* C13: when the send of an accepted submit succeeds, the entry that submit
\* created no longer carries a provisional id or the provisional marker.
C13_ProvisionalResolved ==
    [][ lastOp' = <<"sendResolve", "ok">>
          => \A i \in 1..Len(dom) :
                (dom[i].pending /\ i <= Len(dom'))
                  => (~IsTemp(dom'[i].id) /\ ~dom'[i].optimistic)
      ]_vars

\* C14 (Reconciliation search): when a user message with a server id arrives
\* and some provisional entry, anywhere in the list, has the same content,
\* one such entry gets the server id and loses its provisional marker and
\* the list keeps its length; otherwise the message is appended.
C14_ReconciliationSearch ==
    [][ (lastOp'[1] = "addMessage" /\ lastArg'.message.role = "user"
           /\ ~IsTemp(lastArg'.message.id))
          => LET message == lastArg'.message
                 hits == { i \in TempIndexes(dom) : dom[i].content = message.content }
             IN  IF hits # {}
                 THEN \E i \in hits :
                        dom' = [dom EXCEPT ![i].id = message.id,
                                           ![i].optimistic = FALSE]
                 ELSE /\ Len(dom') > Len(dom)
                      /\ dom'[Len(dom')].id = message.id
                      /\ SubSeq(dom', 1, Len(dom)) = dom
      ]_vars

\* the content a call of sendMessage was asked to submit: the text passed
\* to it, or the input field's value when none was passed
SubmittedContent(arg) == IF arg.text # NoText THEN arg.text ELSE arg.inputValue

\* C15: a call of Chat.sendMessage whose content is empty after trimming
\* creates no entry, issues no request and leaves isSending as it was.
C15_EmptyRejected ==
    [][ (IsSendCall /\ Trim(SubmittedContent(lastArg')) = <<>>)
          => /\ Entries(dom') = Entries(dom)
             /\ sendsInFlight' = sendsInFlight
             /\ isSending' = isSending
      ]_vars

\* C16 (Options are one-shot): no message an option of which was clicked
\* shows selectable options again.
C16_OptionsOneShot ==
    \A i \in MsgIndexes(dom) : dom[i].id \in consumed => ~dom[i].optionsShown

\* the messages of a container, as the server's messages
MessagesOf(d) ==
    LET idx == MsgIndexes(d)
        nth(k) == CHOOSE i \in idx : Cardinality({ j \in idx : j <= i }) = k
    IN  [k \in 1..Cardinality(idx) |->
            [id |-> d[nth(k)].id, role |-> d[nth(k)].role,
             content |-> d[nth(k)].content, ts |-> d[nth(k)].ts]]
\* the messages of a response, without their options
Plain(ms) ==
    [k \in 1..Len(ms) |-> [id |-> ms[k].id, role |-> ms[k].role,
                           content |-> ms[k].content, ts |-> ms[k].ts]]
\* ids of the earliest messages of a response
EarliestIds(ms) ==
    { ms[i].id : i \in { i \in 1..Len(ms) : \A j \in 1..Len(ms) : ms[i].ts <= ms[j].ts } }

\* C17: a successful response to Chat.loadMessages, empty or not, replaces
\* the list with exactly the returned messages, takes hasMoreMessages from
\* the response, and sets oldestMessageId to the earliest returned id.
C17_LoadInitialReplaces ==
    [][ (lastOp'[1] = "loadResolve" /\ lastOp'[2] \in {"ok", "empty"})
          => /\ MessagesOf(dom') = Plain(lastArg'.messages)
             /\ hasMoreMessages' = lastArg'.has_more
             /\ lastArg'.messages # <<>>
                  => oldestMessageId' \in EarliestIds(lastArg'.messages)
      ]_vars

\* C18: after a non-empty older page, oldestMessageId is the server's
\* continuation cursor when there is one, and otherwise the id of the
\* earliest message of the list.
C18_CursorAfterOlderPage ==
    [][ lastOp' = <<"olderResolve", "page">>
          => IF lastArg'.next_cursor # NoId
             THEN oldestMessageId' = lastArg'.next_cursor
             ELSE oldestMessageId' \in EarliestIds(MessagesOf(dom'))
      ]_vars

\* C19: the result of an older-page fetch that arrives after the list was
\* cleared or replaced is ignored: the list, oldestMessageId and
\* hasMoreMessages stay as they are.
C19_LateResultIgnored ==
    [][ (lastOp'[1] = "olderResolve" /\ lastArg'.kind = "older" /\ lastArg'.stale)
          => /\ dom' = dom
             /\ oldestMessageId' = oldestMessageId
             /\ hasMoreMessages' = hasMoreMessages
      ]_vars

\* C20: at most one socket is CONNECTING or OPEN.
C20_OneConnection ==
    (IF wsSocket \in {"CONNECTING", "OPEN"} THEN 1 ELSE 0)
      + oldSockets["CONNECTING"] + oldSockets["OPEN"] <= 1

\* entry e of a container is entry f, whatever id and markers it carries now
SameEntry(e, f) ==
    /\ e.kind = "msg" /\ f.kind = "msg"
    /\ e.role = f.role /\ e.content = f.content /\ e.ts = f.ts

\* C21: no step other than Chat.clear removes a provisional entry from the
\* list; in particular the response to Chat.loadMessages of start-up does
\* not remove the entry of a submit whose send is outstanding.
C21_ProvisionalKept ==
    [][ lastOp'[1] # "clear"
          => \A i \in TempIndexes(dom) :
                \E j \in 1..Len(dom') : SameEntry(dom'[j], dom[i])
      ]_vars

\* C22: every way out of loadOlderMessages leaves isLoadingMore false (a
\* page, an empty page, a failed fetch, no stored user id), and whenever the
\* flag is set it is cleared later.
C22_LoadingFlagCleared ==
    /\ [][ (lastOp'[1] = "olderResolve" \/ lastOp' = <<"loadOlder", "nouser">>)
             => ~isLoadingMore' ]_vars
    /\ (isLoadingMore ~> ~isLoadingMore)

\* a fetch failed and the flag is clear again
C22_Witness ==
    /\ lastOp = <<"olderResolve", "failed">>
    /\ ~isLoadingMore
    /\ hasMoreMessages
    /\ oldestMessageId # NoId

\* C23: a call of loadOlderMessages made while isLoadingMore is true,
\* hasMoreMessages is false or oldestMessageId is not set issues no fetch and
\* leaves the list, the cursor and both flags as they are.
C23_LoadOlderNoOp ==
    [][ (lastOp'[1] = "loadOlder"
           /\ (isLoadingMore \/ ~hasMoreMessages \/ oldestMessageId = NoId))
          => /\ olderFetches' = olderFetches
             /\ dom' = dom
             /\ oldestMessageId' = oldestMessageId
             /\ hasMoreMessages' = hasMoreMessages
             /\ isLoadingMore' = isLoadingMore
      ]_vars

\* a call returned at once because no cursor is set, with no fetch outstanding
C23_Witness ==
    /\ lastOp = <<"loadOlder", "noop">>
    /\ oldestMessageId = NoId
    /\ hasMoreMessages
    /\ ~isLoadingMore
    /\ olderFetches = <<>>

\* C24: an empty older page sets hasMoreMessages to false, shows no error and
\* leaves the list, the scroll offset and oldestMessageId alone; from then on
\* no call of loadOlderMessages issues a fetch until Chat.clear runs or the
\* list is loaded again.
C24_EmptyPageStops ==
    [][ /\ lastOp' = <<"olderResolve", "empty">>
            => /\ ~hasMoreMessages'
               /\ toast' = toast
               /\ dom' = dom
               /\ scrollTop' = scrollTop
               /\ oldestMessageId' = oldestMessageId
        /\ emptySeen => lastOp' # <<"loadOlder", "fetch">>
      ]_vars

\* C25: a call of loadOlderMessages that fetches issues exactly one request.
\* When the request fails, no further request is issued by that step, the
\* list, oldestMessageId and hasMoreMessages stay as they are and the user is
\* told; and a call of loadOlderMessages that follows directly, with the
\* cursor of the failed request still in place and hasMoreMessages true,
\* issues a request with that same cursor.
C25_FailedFetchNotRetried ==
    [][ /\ lastOp' = <<"loadOlder", "fetch">>
            => Len(olderFetches') = Len(olderFetches) + 1
        /\ lastOp' = <<"olderResolve", "failed">>
            => /\ Len(olderFetches') = Len(olderFetches) - 1
               /\ dom' = dom
               /\ oldestMessageId' = oldestMessageId
               /\ hasMoreMessages' = hasMoreMessages
               /\ toast' = "Failed to load older messages"
        /\ (lastOp = <<"olderResolve", "failed">> /\ lastOp'[1] = "loadOlder"
              /\ oldestMessageId = lastArg.cursor /\ hasMoreMessages)
            => /\ lastOp'[2] = "fetch"
               /\ olderFetches'[Len(olderFetches')].cursor = lastArg.cursor
      ]_vars

\* after a failure was shown, a new request with the current cursor is the
\* only one outstanding
C25_Witness ==
    /\ lastOp = <<"loadOlder", "fetch">>
    /\ toast = "Failed to load older messages"
    /\ Len(olderFetches) = 1
    /\ olderFetches[1].cursor = oldestMessageId
    /\ ~olderFetches[1].stale

\* C26: Chat.clear empties the list, resets lastMessageDate and puts the
\* pagination state back to its initial values: isLoadingMore false,
\* hasMoreMessages true, oldestMessageId null.
C26_ClearResets ==
    [][ lastOp'[1] = "clear"
          => /\ dom' = <<>>
             /\ lastMessageDate' = NoDate
             /\ isLoadingMore' = FALSE
             /\ hasMoreMessages' = TRUE
             /\ oldestMessageId' = NoId
      ]_vars

\* the conversation was cleared while an older-page request was outstanding
C26_Witness ==
    /\ lastOp = <<"clear", "ok">>
    /\ dom = <<>>
    /\ olderFetches # <<>>
    /\ ~isLoadingMore
    /\ oldestMessageId = NoId

\* C27: a ping frame is sent only by a timer tick that finds WS.socket OPEN,
\* and sending changes nothing of the transport's state; no ping is sent
\* while WS.socket is CONNECTING, CLOSING or CLOSED.
C27_PingOnlyWhenOpen ==
    [][ lastOp' = <<"ping", "sent">>
          => /\ wsSocket = "OPEN"
             /\ wsSocket' = "OPEN"
      ]_vars

\* a ping timer whose handle was lost fired after WS.socket had closed, and
\* sent nothing
C27_Witness ==
    /\ lastOp = <<"ping", "skipped">>
    /\ wsSocket = "CLOSED"
    /\ pingLeaked > 0

\* the ping timers that are running
ArmedPingTimers == (IF pingStored THEN 1 ELSE 0) + pingLeaked
\* the sockets that have opened and whose close event has not been delivered
\* (a socket being closed by WS.close() counts until then)
OpenSockets ==
    (IF wsSocket \in {"OPEN", "CLOSING"} THEN 1 ELSE 0)
      + oldSockets["OPEN"] + oldSockets["CLOSING"]

\* C28: at most one ping timer is running, and none is when no socket is
\* open.
C28_OnePingTimer ==
    /\ ArmedPingTimers <= 1
    /\ OpenSockets = 0 => ArmedPingTimers = 0

\* C29: reconnectAttempts stays between 0 and maxReconnectAttempts; it is
\* zero after every open event; a close event that schedules a reconnect
\* adds one to it and a close event that schedules none leaves it alone.
C29_AttemptsBounded ==
    /\ [](reconnectAttempts \in 0..maxReconnectAttempts)
    /\ [][ /\ lastOp' = <<"socket", "open">> => reconnectAttempts' = 0
           /\ lastOp' = <<"socket", "close">>
                => IF reconnectTimers' = reconnectTimers + 1
                   THEN reconnectAttempts' = reconnectAttempts + 1
                   ELSE /\ reconnectTimers' = reconnectTimers
                        /\ reconnectAttempts' = reconnectAttempts
         ]_vars

\* the fifth close event in a row scheduled the last reconnect of the budget
C29_Witness ==
    /\ lastOp = <<"socket", "close">>
    /\ reconnectAttempts = maxReconnectAttempts
    /\ closesSinceOpen = maxReconnectAttempts
    /\ reconnectTimers = 1

\* C30: a frame that is not one of the two typing events (text that does
\* not parse, JSON null or another non-object, an object with no event or an
\* unknown one) is dropped: the exception, if any, is caught, and the
\* sockets, reconnectAttempts, the typing indicator and the list stay as
\* they are.  Among frames, only typing_start and typing_end change the
\* typing indicator.
C30_MalformedFramesDropped ==
    [][ lastOp'[1] = "frame"
          => /\ lastOp'[2] \in {"caught", "ignored", "typing"}
             /\ lastArg'.data \notin TypingFrames
                  => /\ lastOp'[2] \in {"caught", "ignored"}
                     /\ UNCHANGED <<wsVars, typing, dom, lastMessageDate>>
             /\ typing' # typing => lastArg'.data \in TypingFrames
      ]_vars

\* JSON null arrived while the typing indicator was shown and a message
\* was in the list; the exception was caught
C30_Witness ==
    /\ lastOp = <<"frame", "caught">>
    /\ lastArg.data = "null"
    /\ typing
    /\ dom # <<>>
    /\ wsSocket = "OPEN"

\* C31: no event of the transport (open, close, error, inbound frame, ping
\* tick, reconnect, WS.close()) and no call of Chat.showTyping changes the
\* message list, the pagination state or the send guard.
C31_TransportLeavesListAlone ==
    [][ lastOp'[1] \in {"socket", "ws", "ping", "frame", "showTyping"}
          => UNCHANGED <<dom, lastMessageDate, oldestMessageId, hasMoreMessages,
                         isLoadingMore, olderFetches, isSending, sendsInFlight>>
      ]_vars

\* typing_end arrived while a send was outstanding, with a message in the
\* list and the pagination cursor set
C31_Witness ==
    /\ lastOp = <<"frame", "typing">>
    /\ ~typing
    /\ isSending
    /\ \E i \in 1..Len(dom) : dom[i].pending
    /\ oldestMessageId # NoId

\* the step is a call of Chat.showTyping from outside sendMessage: a direct
\* call or a typing event of the transport
IsShowTyping ==
    lastOp'[1] = "showTyping" \/ lastOp' = <<"frame", "typing">>

\* C32: a call of Chat.showTyping with the value the indicator already has
\* changes nothing of what is rendered; in particular, when the list is not
\* scrolled to its end, the call queues no scroll and the offset stays.
C32_SetTypingIdempotent ==
    [][ (IsShowTyping /\ typing' = typing /\ scrollTop < MaxScrollTop(dom))
          => UNCHANGED <<scrollPending, scrollTop>>
      ]_vars

\* C33: in every state in which the send request of an accepted submit is
\* outstanding, the entry that submit created is in the list.
C33_VisibleWhileOutstanding ==
    \A req \in sendsInFlight :
        req.origin = "chat"
          => \E i \in 1..Len(dom) :
                /\ dom[i].kind = "msg"
                /\ dom[i].pending
                /\ dom[i].role = "user"
                /\ dom[i].content = req.content

\* C34: no two provisional entries of the list carry the same id, and a
\* failed send flags the entry of its own submit and no other.
C34_ProvisionalIdsFresh ==
    /\ [](\A i, j \in TempIndexes(dom) : i # j => dom[i].id # dom[j].id)
    /\ [][ lastOp' = <<"sendResolve", "failed">>
             => \A i \in 1..Len(dom) :
                   (dom'[i].failed /\ ~dom[i].failed) => dom[i].pending
         ]_vars

\* C35: API.request fails with the "slow down" error on status 429, with the
\* "server error" error on any status of 500 or more, with the "unable to
\* connect" error when fetch fails, and on any other status that is not OK
\* with the detail of the response or else the generic error; it returns data
\* only for an OK response.
C35_RequestMapping ==
    [][ lastOp'[1] = "request"
          => LET f == lastArg'.fetch
                 r == lastArg'.result
             IN  /\ f.rejected => r = Thrown("Error", UnableToConnect)
                 /\ (~f.rejected /\ f.status = 429)
                      => r = Thrown("Error", TooManyMessages)
                 /\ (~f.rejected /\ f.status >= 500)
                      => r = Thrown("Error", ServerError)
                 /\ (~f.rejected /\ f.status # 429 /\ f.status < 500
                       /\ ~ResponseOk(f.status))
                      => /\ r.failed
                         /\ r.name = "Error"
                         /\ r.message \in {StringOf(f.body.detail), AnErrorOccurred}
                 /\ ~r.failed => (~f.rejected /\ ResponseOk(f.status) /\ r.data = f.body)
      ]_vars

\* C36: a click on an option whose submit is rejected (a send is outstanding,
\* or there is nothing to send) leaves every option set selectable; options
\* become inert only together with an accepted submit.
C36_RejectedClickKeepsOptions ==
    [][ (lastOp'[1] = "option" /\ lastOp'[2] # "accepted")
          => /\ consumed' = consumed
             /\ \A i \in 1..Len(dom) : dom[i].optionsShown => dom'[i].optionsShown
      ]_vars

\* C37: the close event of the socket WS.close() closed schedules no
\* reconnect: no timer is set and reconnectAttempts stays as it is.
C37_ExplicitCloseStaysClosed ==
    [][ (lastOp' = <<"socket", "close">> /\ wsSocket = "CLOSING"
           /\ wsSocket' = "CLOSED")
          => /\ reconnectTimers' = reconnectTimers
             /\ reconnectAttempts' = reconnectAttempts
      ]_vars

====
